---- MODULE Spec2Model ----
(***************************************************************************)
(* Model of streamlit_app.py: the PortfolioAnalytics engine (fetch_data,   *)
(* calculate_returns, portfolio_returns, calculate_metrics,                *)
(* risk_attribution) and the main() script that Streamlit re-runs on every *)
(* interaction.                                                            *)
(*                                                                         *)
(* Floating-point values are modelled as exact rationals extended with the *)
(* IEEE special values NaN and +/-inf; square roots are kept symbolically  *)
(* as surds c * sqrt(r).  Rounding error is therefore not modelled.        *)
(***************************************************************************)
EXTENDS Integers, Sequences, FiniteSets

(***************************************************************************)
(* Numbers.  [n, d] with d > 0 is the rational n/d in lowest terms;        *)
(* d = 0 encodes the IEEE specials: n = 0 is NaN, n = 1 is +inf, n = -1 is *)
(* -inf.                                                                   *)
(***************************************************************************)
Abs(x) == IF x < 0 THEN -x ELSE x

Sign(x) == IF x < 0 THEN -1 ELSE IF x > 0 THEN 1 ELSE 0

RECURSIVE GCD(_, _)
GCD(a, b) == IF b = 0 THEN a ELSE GCD(b, a % b)

Rat(n, d) ==
    IF d = 0 THEN [n |-> Sign(n), d |-> 0]
    ELSE LET g == GCD(Abs(n), Abs(d))
             s == IF d < 0 THEN -1 ELSE 1
         IN  [n |-> s * (n \div g), d |-> s * (d \div g)]

Int2Num(i) == [n |-> i, d |-> 1]

NaN == [n |-> 0, d |-> 0]

Zero == Int2Num(0)

One == Int2Num(1)

IsNaN(a) == a.d = 0 /\ a.n = 0

IsInf(a) == a.d = 0 /\ a.n # 0

IsFinite(a) == a.d # 0

Neg(a) == [n |-> -a.n, d |-> a.d]

Add(a, b) ==
    IF IsNaN(a) \/ IsNaN(b) THEN NaN
    ELSE IF IsInf(a) /\ IsInf(b) THEN (IF a.n = b.n THEN a ELSE NaN)
    ELSE IF IsInf(a) THEN a
    ELSE IF IsInf(b) THEN b
    ELSE LET g == GCD(a.d, b.d)
         IN  Rat(a.n * (b.d \div g) + b.n * (a.d \div g), (a.d \div g) * b.d)

Sub(a, b) == Add(a, Neg(b))

Mul(a, b) ==
    IF IsNaN(a) \/ IsNaN(b) THEN NaN
    ELSE IF IsInf(a) \/ IsInf(b)
         THEN [n |-> Sign(a.n) * Sign(b.n), d |-> 0]
    ELSE LET g1 == GCD(Abs(a.n), b.d)
             g2 == GCD(Abs(b.n), a.d)
         IN  Rat((a.n \div g1) * (b.n \div g2), (a.d \div g2) * (b.d \div g1))

\* IEEE division: x/0 is +/-inf, 0/0 is NaN, x/inf is 0.
Div(a, b) ==
    IF IsNaN(a) \/ IsNaN(b) THEN NaN
    ELSE IF IsInf(b) THEN (IF IsInf(a) THEN NaN ELSE Zero)
    ELSE IF IsInf(a) THEN [n |-> a.n * (IF b.n < 0 THEN -1 ELSE 1), d |-> 0]
    ELSE IF b.n = 0 THEN [n |-> Sign(a.n), d |-> 0]
    ELSE Mul(a, Rat(b.d, b.n))

\* IEEE comparisons: every comparison with NaN is false.
Lt(a, b) ==
    IF IsNaN(a) \/ IsNaN(b) THEN FALSE
    ELSE IF IsInf(a) THEN a.n = -1 /\ b # a
    ELSE IF IsInf(b) THEN b.n = 1
    ELSE a.n * b.d < b.n * a.d

Eq(a, b) == ~IsNaN(a) /\ ~IsNaN(b) /\ a = b

Le(a, b) == Lt(a, b) \/ Eq(a, b)

Gt(a, b) == Lt(b, a)

\* The sequence with the elements of f, each computed once.
List(f) == f \o <<>>

RECURSIVE SumSeq(_)
SumSeq(s) == IF s = <<>> THEN Zero ELSE Add(Head(s), SumSeq(Tail(s)))

RECURSIVE ProdSeq(_)
ProdSeq(s) == IF s = <<>> THEN One ELSE Mul(Head(s), ProdSeq(Tail(s)))

RECURSIVE MinSeq(_)
MinSeq(s) ==
    IF Len(s) = 1 THEN Head(s)
    ELSE LET m == MinSeq(Tail(s))
         IN  IF IsNaN(Head(s)) \/ IsNaN(m) THEN NaN
             ELSE IF Lt(m, Head(s)) THEN m ELSE Head(s)

RECURSIVE MaxSeq(_)
MaxSeq(s) ==
    IF Len(s) = 1 THEN Head(s)
    ELSE LET m == MaxSeq(Tail(s))
         IN  IF IsNaN(Head(s)) \/ IsNaN(m) THEN NaN
             ELSE IF Lt(Head(s), m) THEN m ELSE Head(s)

RECURSIVE Insert(_, _)
Insert(x, s) ==
    IF s = <<>> THEN <<x>>
    ELSE IF Le(x, Head(s)) THEN <<x>> \o s
    ELSE <<Head(s)>> \o Insert(x, Tail(s))

RECURSIVE Sorted(_)
Sorted(s) == IF s = <<>> THEN <<>> ELSE Insert(Head(s), Sorted(Tail(s)))

(***************************************************************************)
(* Surds c * sqrt(r), for the one square root the engine takes             *)
(* (Series.std() * np.sqrt(252)).  A NaN radicand or coefficient is NaN.   *)
(***************************************************************************)
Surd(c, r) == [c |-> c, r |-> r]

SurdOfNum(a) == Surd(a, One)

SurdIsNaN(s) == IsNaN(s.c) \/ IsNaN(s.r) \/ Lt(s.r, Zero)

SurdIsFinite(s) == ~SurdIsNaN(s) /\ IsFinite(s.c) /\ IsFinite(s.r)

SurdIsZero(s) == SurdIsFinite(s) /\ (s.c = Zero \/ s.r = Zero)

SurdGtZero(s) == ~SurdIsNaN(s) /\ Gt(s.c, Zero) /\ Gt(s.r, Zero)

\* sqrt(a) * sqrt(b)
SqrtTimesSqrt(a, b) == Surd(One, Mul(a, b))

\* a / (c * sqrt(r))  =  (a / (c * r)) * sqrt(r)
NumDivSurd(a, s) ==
    IF SurdIsNaN(s) THEN Surd(NaN, One)
    ELSE Surd(Div(a, Mul(s.c, s.r)), s.r)

\* (c1 * sqrt(r)) * (c2 * sqrt(r)) = c1 * c2 * r, for surds of one radicand
SurdTimesSurd(s, t) == Mul(Mul(s.c, t.c), s.r)

(***************************************************************************)
(* pandas / numpy values.  A DataFrame is its column count and its rows;   *)
(* a Series is its values; None and a raised ValueError are values of      *)
(* their own kind.                                                         *)
(***************************************************************************)
None == [kind |-> "None"]

ValueError == [kind |-> "ValueError"]

Frame(k, rows) == [kind |-> "frame", cols |-> k, rows |-> rows]

Series(vals) == [kind |-> "series", vals |-> vals]

NRows(f) == Len(f.rows)

Column(f, j) == List([t \in 1..NRows(f) |-> f.rows[t][j]])

RowHasNaN(row) == \E j \in 1..Len(row) : IsNaN(row[j])

RECURSIVE DropNaRows(_)
DropNaRows(rows) ==
    IF rows = <<>> THEN <<>>
    ELSE IF RowHasNaN(Head(rows)) THEN DropNaRows(Tail(rows))
    ELSE <<Head(rows)>> \o DropNaRows(Tail(rows))

\* DataFrame.dropna(): whole-row exclusion
dropna(f) == Frame(f.cols, DropNaRows(f.rows))

\* DataFrame.pct_change(): same shape, first row NaN
pct_change(f) ==
    Frame(f.cols,
          List([t \in 1..NRows(f) |->
              List([j \in 1..f.cols |->
                  IF t = 1 THEN NaN
                  ELSE Div(Sub(f.rows[t][j], f.rows[t - 1][j]), f.rows[t - 1][j])])]))

TradingDays == 252

VaRPercentile == 5

\* Series.mean(): NaN on an empty series (0/0)
Mean(s) == Div(SumSeq(s), Int2Num(Len(s)))

\* sample covariance (ddof = 1): NaN with fewer than 2 observations
Cov(x, y) ==
    IF Len(x) < 2 THEN NaN
    ELSE LET mx == Mean(x)
             my == Mean(y)
         IN  Div(SumSeq([t \in 1..Len(x) |-> Mul(Sub(x[t], mx), Sub(y[t], my))]),
                 Int2Num(Len(x) - 1))

\* Series.std() (ddof = 1), as the surd sqrt(variance)
Std(s) == Surd(One, Cov(s, s))

\* np.percentile(s, q), linear interpolation between the two nearest ranks
Percentile(s, q) ==
    LET srt == Sorted(s)
        N   == Len(s)
        pos == Rat((N - 1) * q, 100)
        lo  == pos.n \div pos.d
        hi  == IF lo + 1 > N - 1 THEN N - 1 ELSE lo + 1
        g   == Sub(pos, Int2Num(lo))
    IN  Add(srt[lo + 1], Mul(g, Sub(srt[hi + 1], srt[lo + 1])))

(***************************************************************************)
(* PortfolioAnalytics                                                      *)
(***************************************************************************)
\* calculate_returns: self.data.pct_change().dropna()
calculate_returns(data) ==
    IF data.kind # "None" THEN dropna(pct_change(data)) ELSE None

\* portfolio_returns: (self.returns * self.weights).sum(axis=1).  The product
\* of a DataFrame with a 1-D array of another length than its column count
\* raises ValueError.
portfolio_returns(returns, weights) ==
    IF returns.kind # "None"
    THEN IF returns.cols # Len(weights) THEN ValueError
         ELSE Series(List([t \in 1..NRows(returns) |->
                              SumSeq([j \in 1..returns.cols |->
                                         Mul(returns.rows[t][j], weights[j])])]))
    ELSE None

total_return(rets) == Sub(ProdSeq([t \in 1..Len(rets) |-> Add(One, rets[t])]), One)

annualized_return(rets) == Mul(Mean(rets), Int2Num(TradingDays))

annualized_vol(rets) ==
    LET sd == Std(rets)
    IN  IF SurdIsNaN(sd) THEN Surd(NaN, One)
        ELSE SqrtTimesSqrt(sd.r, Int2Num(TradingDays))

sharpe_ratio_unguarded(ann_ret, ann_vol) == NumDivSurd(ann_ret, ann_vol)

sharpe_ratio(ann_ret, ann_vol) ==
    IF SurdGtZero(ann_vol) THEN NumDivSurd(ann_ret, ann_vol) ELSE SurdOfNum(Zero)

var_95(rets) == Percentile(rets, VaRPercentile)

cvar_95(rets, var) ==
    LET tail == SelectSeq(rets, LAMBDA x : Le(x, var))
    IN  IF Len(tail) > 0 THEN Mean(tail) ELSE var

cumulative(rets) ==
    List([t \in 1..Len(rets) |-> ProdSeq([u \in 1..t |-> Add(One, rets[u])])])

running_max_as_min(cum) == List([t \in 1..Len(cum) |-> MinSeq(SubSeq(cum, 1, t))])

running_max(cum) == List([t \in 1..Len(cum) |-> MaxSeq(SubSeq(cum, 1, t))])

drawdown(cum, rmax) ==
    List([t \in 1..Len(cum) |-> Div(Sub(cum[t], rmax[t]), rmax[t])])

max_drawdown(dd) == MinSeq(dd)

calculate_metrics(returns, weights) ==
    LET portfolio_rets == portfolio_returns(returns, weights)
    IN  IF portfolio_rets.kind = "ValueError" THEN ValueError
        ELSE IF portfolio_rets.kind = "None" \/ Len(portfolio_rets.vals) = 0
        THEN [kind |-> "empty"]
        ELSE LET r   == portfolio_rets.vals
                 ar  == annualized_return(r)
                 vol == annualized_vol(r)
                 var == var_95(r)
                 cum == cumulative(r)
                 dd  == drawdown(cum, running_max(cum))
             IN  [kind                  |-> "metrics",
                  total_return          |-> total_return(r),
                  annualized_return     |-> ar,
                  annualized_volatility |-> vol,
                  sharpe_ratio          |-> sharpe_ratio(ar, vol),
                  var_95                |-> var,
                  cvar_95               |-> cvar_95(r, var),
                  max_drawdown          |-> max_drawdown(dd),
                  portfolio_returns     |-> r,
                  cumulative_returns    |-> cum,
                  drawdown_series       |-> dd]

\* self.returns.cov() * 252
cov_matrix(returns) ==
    List([i \in 1..returns.cols |->
        List([j \in 1..returns.cols |->
            Mul(Cov(Column(returns, i), Column(returns, j)), Int2Num(TradingDays))])])

\* np.dot(matrix, vector)
MatVec(m, v) ==
    List([i \in 1..Len(m) |-> SumSeq([j \in 1..Len(v) |-> Mul(m[i][j], v[j])])])

\* np.dot(vector, vector)
Dot(u, v) == SumSeq([i \in 1..Len(u) |-> Mul(u[i], v[i])])

portfolio_variance(returns, weights) ==
    Dot(weights, MatVec(cov_matrix(returns), weights))

marginal_contrib_diagonal(returns, weights) ==
    List([i \in 1..Len(weights) |-> Mul(cov_matrix(returns)[i][i], weights[i])])

marginal_contrib(returns, weights) == MatVec(cov_matrix(returns), weights)

\* self.weights * marginal_contrib / portfolio_variance
risk_contrib(weights, mc, pv) ==
    List([i \in 1..Len(weights) |-> Div(Mul(weights[i], mc[i]), pv)])

\* pd.DataFrame({'Asset', 'Weight', 'Risk Contribution', 'Risk Contribution %'})
risk_table(tickers, weights, rc, total) ==
    [kind |-> "table",
     rows |-> List([i \in 1..Len(weights) |->
                     [Asset |-> tickers[i],
                      Weight |-> weights[i],
                      RiskContribution |-> rc[i],
                      RiskContributionPct |-> Mul(Div(rc[i], total), Int2Num(100))]])]

risk_attribution(tickers, returns, weights) ==
    IF returns.kind = "None" THEN None
    ELSE IF returns.cols # Len(weights) THEN ValueError
    ELSE LET pv == portfolio_variance(returns, weights)
         IN  IF Le(pv, Zero) THEN None
             ELSE LET rc == risk_contrib(weights, marginal_contrib(returns, weights), pv)
                  IN  risk_table(tickers, weights, rc, SumSeq(rc))

(***************************************************************************)
(* Text.  A string is a sequence of one-character strings.                 *)
(***************************************************************************)
Chars == {",", " ", "a"}

MaxInputLen == 3

RECURSIVE Split(_)
\* str.split(',')
Split(s) ==
    IF \A i \in 1..Len(s) : s[i] # ","
    THEN <<s>>
    ELSE LET i == CHOOSE k \in 1..Len(s) :
                      s[k] = "," /\ \A m \in 1..(k - 1) : s[m] # ","
         IN  <<SubSeq(s, 1, i - 1)>> \o Split(SubSeq(s, i + 1, Len(s)))

RECURSIVE LStrip(_)
LStrip(s) == IF s # <<>> /\ Head(s) = " " THEN LStrip(Tail(s)) ELSE s

RECURSIVE RStrip(_)
RStrip(s) ==
    IF s # <<>> /\ s[Len(s)] = " " THEN RStrip(SubSeq(s, 1, Len(s) - 1)) ELSE s

\* str.strip()
Strip(s) == RStrip(LStrip(s))

\* str.upper()
Upper(s) == [i \in 1..Len(s) |-> IF s[i] = "a" THEN "A" ELSE s[i]]

\* [ticker.strip().upper() for ticker in tickers_input.split(',') if ticker.strip()]
ParseTickers(tickers_input) ==
    LET kept == SelectSeq(Split(tickers_input), LAMBDA tok : Strip(tok) # <<>>)
    IN  [i \in 1..Len(kept) |-> Upper(Strip(kept[i]))]

(***************************************************************************)
(* The sidebar widgets and the price provider.                             *)
(***************************************************************************)
\* st.date_input(max_value=now): days 1..Today
Today == 3

\* st.number_input(min_value=0.0, max_value=1.0), in hundredths
WeightChoices == {0, 100}

\* total_weight = sum(weights)
total_weight(raw) == SumSeq(raw)

weights_accepted_with_zero(total) == Le(Zero, total)

\* if total_weight > 0
weights_accepted(total) == Gt(total, Zero)

\* [w / total_weight for w in weights]
normalize(raw) == List([i \in 1..Len(raw) |-> Div(raw[i], total_weight(raw))])

\* The provider knows a symbol when it has no blank inside.
Listed(ticker) == \A i \in 1..Len(ticker) : ticker[i] # " "

\* The adjusted close of a listed symbol on a day: some positive price.
Quote(ticker, day) == Int2Num(1 + ((Len(ticker) + day) % 2))

\* yf.download(tickers, start, end)['Adj Close'] (a frame also for one
\* ticker, after to_frame): one row per day in [start, end), one column per
\* ticker, NaN where the provider has no price.
yf_download(tks, start, end) ==
    Frame(Len(tks),
          [t \in 1..(IF end > start THEN end - start ELSE 0) |->
              [j \in 1..Len(tks) |->
                  IF Listed(tks[j]) THEN Quote(tks[j], start + t - 1) ELSE NaN]])

ErrFetching == "Error fetching data"

MsgTickers == "Please enter at least one ticker symbol"

MsgWeights == "Total weights must be greater than 0"

MsgFetch == "Unable to fetch data. Please check your ticker symbols and try again."

MsgReturns == "Unable to calculate returns."

MsgMetrics == "Unable to calculate portfolio metrics."

\* The body of fetch_data: what it returns and the st.error it shows.
fetch_data_body(tks, start, end, outcome) ==
    IF outcome = "raise"
    THEN [value |-> None, shown |-> <<ErrFetching>>]
    ELSE [value |-> dropna(yf_download(tks, start, end)), shown |-> <<>>]

\* The request a price table belongs to.
RequestKey(tks, start, end) == <<tks, start, end>>

\* @st.cache_data on fetch_data(_self): Streamlit leaves a parameter whose
\* name starts with an underscore out of the cache key, and _self is the only
\* parameter, so every call has the same key.
cache_key(tks, start, end) == <<>>

missing_data_ignored(d) == FALSE

\* if portfolio.data is None
missing_data(d) == d.kind = "None"

(***************************************************************************)
(* State: one run of main() at a time, and the process-wide cache.         *)
(***************************************************************************)
VARIABLES
    pc,            \* where the run of main() is
    tickers,       \* main: tickers (also portfolio.tickers)
    raw_weights,   \* main: weights as entered in the sidebar
    weights,       \* main: weights after normalisation (also portfolio.weights)
    start_date,    \* main: start_date, 0 before the widget is drawn
    end_date,      \* main: end_date, 0 before the widget is drawn
    data,          \* portfolio.data
    returns,       \* portfolio.returns
    metrics,       \* main: metrics
    risk_attr,     \* main: risk_attr
    errors,        \* the st.error messages shown in this run, in order
    displayed,     \* the result sections rendered in this run
    events,        \* the calls made in this run
    cache,         \* the st.cache_data store of fetch_data
    data_from      \* history: the request whose download produced portfolio.data

vars == <<pc, tickers, raw_weights, weights, start_date, end_date, data, returns,
          metrics, risk_attr, errors, displayed, events, cache, data_from>>

NoRequest == <<>>

NoMetrics == [kind |-> "unset"]

Inputs == UNION {[1..n -> Chars] : n \in 0..MaxInputLen}

Init ==
    /\ pc = "configure"
    /\ tickers = <<>>
    /\ raw_weights = <<>>
    /\ weights = <<>>
    /\ start_date = 0
    /\ end_date = 0
    /\ data = None
    /\ returns = None
    /\ metrics = NoMetrics
    /\ risk_attr = None
    /\ errors = <<>>
    /\ displayed = {}
    /\ events = {}
    /\ cache = {}
    /\ data_from = NoRequest

\* main, from the header to the "Analyze Portfolio" button.
Configure ==
    /\ pc = "configure"
    /\ \E tickers_input \in Inputs :
         LET tks == ParseTickers(tickers_input)
         IN  IF tks = <<>>
             THEN /\ tickers' = tks
                  /\ errors' = <<MsgTickers>>
                  /\ pc' = "halted"
                  /\ UNCHANGED <<raw_weights, weights, start_date, end_date, events>>
             ELSE \E start \in 1..Today, end \in 1..Today, pressed \in BOOLEAN,
                     entered \in [1..Len(tks) -> WeightChoices] :
                    LET raw == [i \in 1..Len(tks) |-> Rat(entered[i], 100)]
                    IN  /\ tickers' = tks
                        /\ start_date' = start
                        /\ end_date' = end
                        /\ raw_weights' = raw
                        /\ IF weights_accepted(total_weight(raw))
                           THEN /\ weights' = normalize(raw)
                                /\ errors' = <<>>
                                /\ pc' = IF pressed THEN "fetch" ELSE "done"
                                /\ events' = IF pressed THEN {"PortfolioAnalytics"} ELSE {}
                           ELSE /\ weights' = raw
                                /\ errors' = <<MsgWeights>>
                                /\ pc' = "halted"
                                /\ events' = {}
    /\ UNCHANGED <<data, returns, metrics, risk_attr, displayed, cache, data_from>>

\* portfolio.data = portfolio.fetch_data(), through the cache, and the check
\* of the result in main.
FetchData ==
    /\ pc = "fetch"
    /\ LET key == cache_key(tickers, start_date, end_date)
       IN  IF \E entry \in cache : entry.key = key
           THEN LET entry == CHOOSE en \in cache : en.key = key
                IN  /\ data' = entry.value
                    /\ data_from' = entry.made_for
                    /\ errors' = errors \o entry.shown
                                 \o (IF missing_data(entry.value) THEN <<MsgFetch>> ELSE <<>>)
                    /\ events' = events \cup {"fetch_data", "cache_hit"}
                    /\ pc' = IF missing_data(entry.value) THEN "halted" ELSE "returns"
                    /\ UNCHANGED cache
           ELSE \E outcome \in {"ok", "raise"} :
                    LET got == fetch_data_body(tickers, start_date, end_date, outcome)
                        made_for == RequestKey(tickers, start_date, end_date)
                    IN  /\ data' = got.value
                        /\ data_from' = made_for
                        /\ cache' = cache \cup {[key |-> key, value |-> got.value,
                                                  shown |-> got.shown,
                                                  made_for |-> made_for]}
                        /\ errors' = errors \o got.shown
                                     \o (IF missing_data(got.value) THEN <<MsgFetch>> ELSE <<>>)
                        /\ events' = events \cup {"fetch_data", "yf.download"}
                                     \cup (IF outcome = "raise" THEN {"download_raised"} ELSE {})
                        /\ pc' = IF missing_data(got.value) THEN "halted" ELSE "returns"
    /\ UNCHANGED <<tickers, raw_weights, weights, start_date, end_date, returns,
                   metrics, risk_attr, displayed>>

\* portfolio.returns = portfolio.calculate_returns(), and its check in main.
CalculateReturns ==
    /\ pc = "returns"
    /\ returns' = calculate_returns(data)
    /\ events' = events \cup {"calculate_returns"}
    /\ IF returns'.kind = "None"
       THEN errors' = errors \o <<MsgReturns>> /\ pc' = "halted"
       ELSE errors' = errors /\ pc' = "metrics"
    /\ UNCHANGED <<tickers, raw_weights, weights, start_date, end_date, data,
                   metrics, risk_attr, displayed, cache, data_from>>

\* metrics = portfolio.calculate_metrics(), its check, and the composition,
\* metric and chart sections.  A ValueError leaves main unhandled.
CalculateMetrics ==
    /\ pc = "metrics"
    /\ LET m == calculate_metrics(returns, weights)
       IN  /\ events' = events \cup {"calculate_metrics"}
           /\ IF m.kind = "ValueError"
              THEN /\ pc' = "crashed"
                   /\ UNCHANGED <<metrics, errors, displayed>>
              ELSE /\ metrics' = m
                   /\ IF m.kind = "empty"
                      THEN /\ errors' = errors \o <<MsgMetrics>>
                           /\ pc' = "halted"
                           /\ UNCHANGED displayed
                      ELSE /\ displayed' = {"success", "composition", "metrics", "charts"}
                           /\ pc' = "attribution"
                           /\ UNCHANGED errors
    /\ UNCHANGED <<tickers, raw_weights, weights, start_date, end_date, data,
                   returns, risk_attr, cache, data_from>>

\* risk_attr = portfolio.risk_attribution(), and its chart and table.
RiskAttribution ==
    /\ pc = "attribution"
    /\ LET ra == risk_attribution(tickers, returns, weights)
       IN  /\ events' = events \cup {"risk_attribution"}
           /\ IF ra.kind = "ValueError"
              THEN pc' = "crashed" /\ UNCHANGED <<risk_attr, displayed>>
              ELSE /\ risk_attr' = ra
                   /\ displayed' = IF ra.kind # "None"
                                   THEN displayed \cup {"attribution"}
                                   ELSE displayed
                   /\ pc' = "done"
    /\ UNCHANGED <<tickers, raw_weights, weights, start_date, end_date, data,
                   returns, metrics, errors, cache, data_from>>

\* Streamlit runs main() again on the next interaction: every local starts
\* over, the cache stays.
Rerun ==
    /\ pc \in {"halted", "done", "crashed"}
    /\ pc' = "configure"
    /\ tickers' = <<>>
    /\ raw_weights' = <<>>
    /\ weights' = <<>>
    /\ start_date' = 0
    /\ end_date' = 0
    /\ data' = None
    /\ returns' = None
    /\ metrics' = NoMetrics
    /\ risk_attr' = None
    /\ errors' = <<>>
    /\ displayed' = {}
    /\ events' = {}
    /\ data_from' = NoRequest
    /\ UNCHANGED cache

Next ==
    \/ Configure
    \/ FetchData
    \/ CalculateReturns
    \/ CalculateMetrics
    \/ RiskAttribution
    \/ Rerun

Spec == Init /\ [][Next]_vars

(***************************************************************************)
(* The engine alone: calculate_returns, calculate_metrics and              *)
(* risk_attribution applied to every small price table and weight vector.  *)
(***************************************************************************)
MaxRows == 4

\* Adjusted closes the engine is applied to: positive prices.
PriceChoices == {1, 2}

\* The identifier lists the engine is applied to: one asset, and two.
EngineTickers == {<<<<"A">>>>, <<<<"A">>, <<"B">>>>}

\* Sidebar weights the engine is applied to, in hundredths.
EngineWeightChoices == {0, 50, 100}

PriceTables(k) ==
    UNION {[1..n -> [1..k -> {Int2Num(p) : p \in PriceChoices}]] : n \in 0..MaxRows}

InitEngine ==
    /\ pc = "returns"
    /\ \E tks \in EngineTickers :
         /\ tickers = tks
         /\ \E rows \in PriceTables(Len(tks)) : data = Frame(Len(tks), rows)
         /\ \E entered \in [1..Len(tks) -> EngineWeightChoices] :
              /\ raw_weights = [i \in 1..Len(tks) |-> Rat(entered[i], 100)]
              /\ weights_accepted(total_weight(raw_weights))
              /\ weights = normalize(raw_weights)
    /\ start_date = 0
    /\ end_date = 0
    /\ returns = None
    /\ metrics = NoMetrics
    /\ risk_attr = None
    /\ errors = <<>>
    /\ displayed = {}
    /\ events = {"PortfolioAnalytics"}
    /\ cache = {}
    /\ data_from = NoRequest

NextEngine ==
    \/ CalculateReturns
    \/ CalculateMetrics
    \/ RiskAttribution

SpecEngine == InitEngine /\ [][NextEngine]_vars

(***************************************************************************)
(* Properties                                                              *)
(***************************************************************************)
Last(s) == s[Len(s)]

\* The error main halts with after fetch_data returned d (lines 221-236):
\* "" when the run goes on to display results.
halt_message(d, w) ==
    IF missing_data(d) THEN MsgFetch
    ELSE IF calculate_returns(d).kind = "None" THEN MsgReturns
    ELSE IF calculate_metrics(calculate_returns(d), w).kind = "empty" THEN MsgMetrics
    ELSE ""

\* C1: a run of main whose identifier list is empty after trimming, or whose
\* entered weights sum to zero, halts with an error before the button block:
\* no PortfolioAnalytics object, no fetch_data call, no metrics.
C1_RejectedBeforeFetch ==
    (pc # "configure" /\ (tickers = <<>> \/ Eq(total_weight(raw_weights), Zero)))
        => /\ pc = "halted"
           /\ errors \in {<<MsgTickers>>, <<MsgWeights>>}
           /\ events = {}
           /\ data = None
           /\ metrics = NoMetrics

\* A run rejected for zero weights, in a process that has fetched before.
C1_Witness ==
    /\ pc = "halted"
    /\ tickers # <<>>
    /\ Eq(total_weight(raw_weights), Zero)
    /\ errors = <<MsgWeights>>
    /\ cache # {}

\* C2: what fetch_data returns to a request was produced for that very
\* (identifiers, start date, end date) request.
C2_CacheKeyedByRequest ==
    "fetch_data" \in events
        => data_from = RequestKey(tickers, start_date, end_date)

\* C3: when the download raises, fetch_data returns None instead of raising,
\* and the run halts with the fetch failure message and shows no metric,
\* chart or attribution; the same when the failure comes back from the cache.
C3_FetchFailureHalts ==
    /\ "download_raised" \in events => data = None /\ pc # "crashed"
    /\ ("fetch_data" \in events /\ data = None)
          => /\ pc = "halted"
             /\ Last(errors) = MsgFetch
             /\ displayed = {}
             /\ metrics = NoMetrics
             /\ risk_attr = None

\* A run whose download raised and that halted.
C3_Witness == "download_raised" \in events /\ pc = "halted" /\ errors # <<>>

\* C4: a run halted on a price table of one row (too few rows for a return)
\* shows another message than main shows for unavailable data, be it a failed
\* fetch or a result that is empty after dropna.
C4_InsufficientDataDistinct ==
    (pc = "halted" /\ data.kind = "frame" /\ NRows(data) = 1)
        => \A d \in {None, Frame(data.cols, <<>>)} :
               Last(errors) # halt_message(d, weights)

\* C5: risk_attribution returns no table unless the portfolio variance is
\* strictly positive, and every table it returns holds finite contributions.
C5_AttributionDefined ==
    pc = "done"
        => /\ ~Gt(portfolio_variance(returns, weights), Zero)
                 => risk_attr.kind = "None"
           /\ risk_attr.kind = "table"
                 => \A i \in 1..Len(risk_attr.rows) :
                        /\ IsFinite(risk_attr.rows[i].RiskContribution)
                        /\ IsFinite(risk_attr.rows[i].RiskContributionPct)

\* C6: a Return Table whose column count differs from the number of weights
\* is reported as an error message: the run halts, it never ends in an
\* unhandled exception and never yields metrics.
C6_MismatchReported ==
    /\ pc # "crashed"
    /\ (returns.kind = "frame" /\ returns.cols # Len(weights) /\ pc # "metrics")
          => pc = "halted" /\ errors # <<>> /\ metrics.kind # "metrics"

\* C7: every bundle calculate_metrics returns holds seven defined numbers,
\* and it returns the empty result only for a series of length 0.
C7_AllScalarsDefined ==
    /\ metrics.kind = "metrics"
          => /\ IsFinite(metrics.total_return)
             /\ IsFinite(metrics.annualized_return)
             /\ SurdIsFinite(metrics.annualized_volatility)
             /\ SurdIsFinite(metrics.sharpe_ratio)
             /\ IsFinite(metrics.var_95)
             /\ IsFinite(metrics.cvar_95)
             /\ IsFinite(metrics.max_drawdown)
    /\ metrics.kind = "empty" => NRows(returns) = 0

\* C8: when risk_attribution returns a table and the portfolio variance is
\* positive, the contributions sum to 1, the percentages to 100, and row i
\* is identifier i with weight i.
C8_ContributionsSum ==
    (pc = "done" /\ risk_attr.kind = "table"
       /\ Gt(portfolio_variance(returns, weights), Zero))
        => /\ Len(risk_attr.rows) = Len(tickers)
           /\ \A i \in 1..Len(tickers) :
                  /\ risk_attr.rows[i].Asset = tickers[i]
                  /\ risk_attr.rows[i].Weight = weights[i]
           /\ SumSeq([i \in 1..Len(tickers) |-> risk_attr.rows[i].RiskContribution])
                  = One
           /\ SumSeq([i \in 1..Len(tickers) |-> risk_attr.rows[i].RiskContributionPct])
                  = Int2Num(100)

\* Two assets, both held, with different contributions.
C8_Witness ==
    /\ pc = "done"
    /\ risk_attr.kind = "table"
    /\ Gt(portfolio_variance(returns, weights), Zero)
    /\ Len(tickers) = 2
    /\ Gt(weights[1], Zero)
    /\ Gt(weights[2], Zero)
    /\ risk_attr.rows[1].RiskContribution # risk_attr.rows[2].RiskContribution

\* C9: every drawdown is <= 0, so is the maximum drawdown, and the maximum
\* drawdown is 0 only when the cumulative curve never falls.
C9_DrawdownNonPositive ==
    metrics.kind = "metrics"
        => /\ \A t \in 1..Len(metrics.drawdown_series) :
                  Le(metrics.drawdown_series[t], Zero)
           /\ Le(metrics.max_drawdown, Zero)
           /\ Eq(metrics.max_drawdown, Zero)
                 => \A t \in 2..Len(metrics.cumulative_returns) :
                        Le(metrics.cumulative_returns[t - 1],
                           metrics.cumulative_returns[t])

\* A curve that rises and then falls below its peak.
C9_Witness ==
    /\ metrics.kind = "metrics"
    /\ Lt(metrics.max_drawdown, Zero)
    /\ \E t \in 2..Len(metrics.cumulative_returns) :
           Lt(metrics.cumulative_returns[t - 1], metrics.cumulative_returns[t])

====
